---- MODULE Spec2Model ----
(***************************************************************************)
(* Signature synchronisation of Raspirus/python-cli: class HashAPI of      *)
(* src/database_api.py driven as src/main.py drives it.  The remote         *)
(* catalog (the numbered VirusShare_NNNNN.md5 files) is an input; the       *)
(* SQLite table `signatures` is the store.  The store is modelled twice:    *)
(* `visible` is what the open connection sees (committed rows plus the      *)
(* rows of its open transaction), `durable` is what is committed on disk.   *)
(***************************************************************************)
EXTENDS Integers, Sequences, FiniteSets, TLC

\* ------------------------------------------------------------------ bounds
\* Number of shards the remote catalog may publish (shards 0..MaxShards-1).
MaxShards == 2

\* Number of update_db runs a behaviour may start.
MaxRuns == 2

\* ------------------------------------------------------- bytes and strings
\* One byte of a shard file.  "LF" stands for the newline byte 0x0A.
LF == "LF"

\* Raw lines (bytes objects) as the HTTP response yields them: every line
\* of a file ends in LF except, possibly, the last one.
LineA == <<"a", LF>>
LineB == <<"b", LF>>
LineC == <<"c", LF>>
LineComment == <<"#", "a", LF>>
LineBlank == <<LF>>
LineCNoLF == <<"c">>

\* The shard files the catalog is drawn from: a header-only file, a plain
\* file, a file with a header that repeats the hash of the plain file and
\* then brings a new one, a file that brings a new hash and then repeats one
\* of the file before, and a file with a blank line whose last line has no
\* line terminator.
ShardBodies ==
    { <<LineComment>>,
      <<LineA>>,
      <<LineComment, LineA, LineB>>,
      <<LineC, LineB>>,
      <<LineBlank, LineCNoLF>> }

\* str(line) for a bytes object: b'...' with the newline byte escaped as
\* the two characters backslash, n.
RECURSIVE Escape(_)
Escape(bytes) ==
    IF bytes = <<>> THEN <<>>
    ELSE (IF Head(bytes) = LF THEN <<"\\", "n">> ELSE <<Head(bytes)>>)
         \o Escape(Tail(bytes))

StrOfBytes(bytes) == <<"b", "'">> \o Escape(bytes) \o <<"'">>

\* s.replace(old, ""): every non-overlapping occurrence, left to right.
RECURSIVE Replace(_, _)
Replace(s, old) ==
    IF Len(s) < Len(old) THEN s
    ELSE IF SubSeq(s, 1, Len(old)) = old
         THEN Replace(SubSeq(s, Len(old) + 1, Len(s)), old)
         ELSE <<Head(s)>> \o Replace(Tail(s), old)

\* line_n = str(line).replace("b'", "").replace("\\n'", "")
LineN(line) == Replace(Replace(StrOfBytes(line), <<"b", "'">>), <<"\\", "n", "'">>)

StartsWithHash(s) == Len(s) > 0 /\ s[1] = "#"

\* ------------------------------------------------------------ file numbers
\* A file_nr is a string of decimal digits, kept as the sequence of its
\* digits.  PadWidth is the 5 of the format f'{file_nr:05d}'.
PadWidth == 5

RECURSIVE Digits(_)
Digits(n) == IF n < 10 THEN <<n>> ELSE Digits(n \div 10) \o <<n % 10>>

RECURSIVE ZeroPad(_, _)
ZeroPad(ds, width) == IF Len(ds) >= width THEN ds ELSE ZeroPad(<<0>> \o ds, width)

\* f'{n:05d}'
Format05(n) == ZeroPad(Digits(n), PadWidth)

\* int(file_nr)
RECURSIVE ToInt(_)
ToInt(ds) == IF ds = <<>> THEN 0 ELSE 10 * ToInt(SubSeq(ds, 1, Len(ds) - 1)) + ds[Len(ds)]

\* Text order of two digit strings (SQLite's BINARY collation).
RECURSIVE TextLess(_, _)
TextLess(s, t) ==
    IF t = <<>> THEN FALSE
    ELSE IF s = <<>> THEN TRUE
    ELSE IF Head(s) # Head(t) THEN Head(s) < Head(t)
    ELSE TextLess(Tail(s), Tail(t))

\* ---------------------------------------------------------------- the state
VARIABLES
    shards,     \* the remote catalog: shards[i + 1] is the file of index i
    durable,    \* rows of table signatures committed to the database file
    visible,    \* rows the open connection sees (durable plus its open transaction)
    pc,         \* "off" (no HashAPI object), "probe", "loop", "ready";
                \* "called" in SpecLatest, once get_latest_file_nr has returned
    file_nr,    \* the local file_nr of download_files
    state,      \* the run's state: Idle, ProbingFreshness, Syncing, UpToDate, Aborted, Unhandled
    log,        \* the fetches of the current run, in order, with their outcomes
    runs,       \* number of update_db runs started
    atStart,    \* visible rows when the current run started
    pre,        \* visible rows before the latest fetch of the current run
    prev,       \* what is remembered of the previous run (see StartRun)
    removed     \* a remove_hash was issued since the current run ended

vars == <<shards, durable, visible, pc, file_nr, state, log, runs, atStart, pre, prev, removed>>

\* ---------------------------------------------------------- SignatureStore
\* A row of table signatures (hash varchar(32) PRIMARY KEY, file_nr varchar(5)).
Row(h, nr) == [hash |-> h, file_nr |-> nr]

HashesOf(store) == {r.hash : r \in store}

\* hash_exists: SELECT hash FROM signatures WHERE hash = ?
HashExists(store, hash_str) == \E r \in store : r.hash = hash_str

\* count_hashes: SELECT COUNT(hash), returned as the string of its digits.
CountHashes(store) == Digits(Cardinality(store))

\* get_latest_file_nr: ORDER BY file_nr DESC LIMIT 1 in text order; "00000"
\* when the table has no row (fetchone() is None, the TypeError branch).
GetLatestFileNr(store) ==
    IF store = {} THEN <<0, 0, 0, 0, 0>>
    ELSE LET top == CHOOSE r \in store :
                        \A q \in store : ~TextLess(r.file_nr, q.file_nr)
         IN  top.file_nr

\* executemany on a table whose hash column carries no PRIMARY KEY: every
\* row is inserted.
ExecuteManyNoKey(store, rows) ==
    [store |-> store \cup {rows[i] : i \in 1..Len(rows)}, ok |-> TRUE]

\* executemany('INSERT INTO signatures ...', rows) inside the connection's
\* open transaction: the rows are inserted one by one; a row whose hash is
\* already in the table raises IntegrityError (PRIMARY KEY), which stops the
\* statement and leaves the rows inserted before it in the transaction.
RECURSIVE ExecuteMany(_, _)
ExecuteMany(store, rows) ==
    IF rows = <<>> THEN [store |-> store, ok |-> TRUE]
    ELSE IF HashExists(store, Head(rows).hash)
         THEN [store |-> store, ok |-> FALSE]
         ELSE ExecuteMany(store \cup {Head(rows)}, Tail(rows))

\* insert_hashes: executemany, then commit; sqlite3.Error is printed and
\* swallowed, and the commit is skipped.
InsertHashes(hashes) ==
    LET res == ExecuteMany(visible, hashes)
    IN  /\ visible' = res.store
        /\ durable' = IF res.ok THEN res.store ELSE durable

\* The DELETE of remove_hash.
DeleteHash(store, hash_str) == {r \in store : r.hash # hash_str}

\* ----------------------------------------------------------- RemoteCatalog
Catalogs ==
    UNION {[1..n -> ShardBodies] : n \in 0..MaxShards}

\* Outcome of urlopen for file index idx.  `net` is what the network does:
\* "ok" (the server answers: 200 or 404), "HTTPError" (an HTTP error whose
\* code is not 404) or "URLError" (no connection).
NetOutcomes == {"ok", "HTTPError", "URLError"}

UrlOpen(idx, net) ==
    IF net # "ok" THEN net
    ELSE IF idx < Len(shards) THEN "Found" ELSE "NotFound"

\* The lines 132-136 of download_files: the rows built from a fetched file.
RECURSIVE ParseFile(_, _)
ParseFile(file, nr) ==
    IF file = <<>> THEN <<>>
    ELSE LET line_n == LineN(Head(file))
         IN  (IF ~StartsWithHash(line_n) THEN <<Row(line_n, nr)>> ELSE <<>>)
             \o ParseFile(Tail(file), nr)

\* -------------------------------------------------------------- SyncEngine
\* _check_latest_file: the index it requests.
CheckLatestFileIndex(nr) == ToInt(Format05(ToInt(nr) + 1))

\* db_is_updated with `except URLError` falling through like the HTTPError
\* branch does for a code other than 404.
DbIsUpdatedURLErrorFallsThrough(res) ==
    CASE res = "Found" -> "False"
      [] res = "NotFound" -> "True"
      [] res = "URLError" -> "None"
      [] res = "HTTPError" -> "None"

\* db_is_updated: "False" when the next file exists, "True" on 404 and on
\* URLError, and None when the HTTPError is not a 404 (the except block
\* falls through without a return).
DbIsUpdated(res) ==
    CASE res = "Found" -> "False"
      [] res = "NotFound" -> "True"
      [] res = "URLError" -> "True"
      [] res = "HTTPError" -> "None"

\* Python truth value of `not x` for x in True, False, None.
PyNot(x) == x # "True"

\* A log entry: the index requested, what urlopen gave, and what became of
\* the insert_hashes call that followed ("none" when there was no call).
Entry(idx, res, ins) == [idx |-> idx, res |-> res, ins |-> ins]

Last(l) == l[Len(l)]

\* The urlopen outcomes that are errors other than 404.
Transient == {"HTTPError", "URLError"}

\* No fetch of the run logged as `l` failed.
FailureFree(l) == \A i \in 1..Len(l) : l[i].res \notin Transient

\* k, when the run logged as `l` started on an empty store, committed the
\* batches of shards 0..k one after the other and then failed to fetch
\* shard k + 1 with a transient error; -1 for every other run.
CommittedBeforeAbort(l, start) ==
    IF /\ start = {}
       /\ Len(l) >= 3
       /\ Last(l).res \in Transient
       /\ Last(l).idx = Len(l) - 2
       /\ \A i \in 2..(Len(l) - 1) :
             l[i].idx = i - 2 /\ l[i].res = "Found" /\ l[i].ins = "ok"
    THEN Len(l) - 3
    ELSE -1

Init ==
    /\ shards \in Catalogs
    /\ durable = {}
    /\ visible = {}
    /\ pc = "off"
    /\ file_nr = <<0, 0, 0, 0, 0>>
    /\ state = "Idle"
    /\ log = <<>>
    /\ runs = 0
    /\ atStart = {}
    /\ pre = {}
    /\ prev = [state |-> "Idle", clean |-> TRUE, committed |-> -1, touched |-> FALSE]
    /\ removed = FALSE

\* What update_db does before download_files tests the probe.  `prev`
\* keeps of the run that just ended: its final state, whether all its
\* fetches succeeded, CommittedBeforeAbort, and whether remove_hash was
\* called after it.
StartRun(store) ==
    /\ runs' = runs + 1
    /\ state' = "ProbingFreshness"
    /\ log' = <<>>
    /\ atStart' = store
    /\ pre' = store
    /\ prev' = [state |-> state, clean |-> FailureFree(log),
                committed |-> CommittedBeforeAbort(log, atStart), touched |-> removed]
    /\ removed' = FALSE

\* HashAPI(db_location): connect, init_table, then the first update_db.
Construct ==
    /\ pc = "off"
    /\ runs < MaxRuns
    /\ visible' = durable
    /\ pc' = "probe"
    /\ StartRun(durable)
    /\ UNCHANGED <<shards, durable, file_nr>>

\* hapi.update_db() on the constructed object, as updater() calls it.
UpdateDb ==
    /\ pc = "ready"
    /\ runs < MaxRuns
    /\ pc' = "probe"
    /\ StartRun(visible)
    /\ UNCHANGED <<shards, durable, visible, file_nr>>

\* download_files up to the loop: the probe of db_is_updated and the test
\* `if not self.db_is_updated()`.
Probe(net) ==
    /\ pc = "probe"
    /\ LET idx == CheckLatestFileIndex(GetLatestFileNr(visible))
           res == UrlOpen(idx, net)
       IN  /\ log' = Append(log, Entry(idx, res, "none"))
           /\ IF PyNot(DbIsUpdated(res))
              THEN /\ file_nr' = GetLatestFileNr(visible)
                   /\ pc' = "loop"
                   /\ state' = "Syncing"
              ELSE /\ pc' = "ready"
                   /\ state' = "UpToDate"
                   /\ UNCHANGED file_nr
    /\ pre' = visible
    /\ UNCHANGED <<shards, durable, visible, runs, atStart, prev, removed>>

\* The except clause of the loop with the 404 test left out of it: the loop
\* is not left on a 404.
LoopExitNoBreakOn404(res) ==
    CASE res = "NotFound" -> [pc |-> "loop", state |-> "Syncing"]
      [] res = "HTTPError" -> [pc |-> "ready", state |-> "Aborted"]
      [] res = "URLError" -> [pc |-> "off", state |-> "Unhandled"]

\* How an iteration whose urlopen raised leaves the loop: `except HTTPError`
\* breaks on a 404 ("No more files to download") and on any other code
\* ("ERROR: ..."); a URLError is not caught, it leaves download_files,
\* update_db and the caller, and the process ends.
LoopExit(res) ==
    CASE res = "NotFound" -> [pc |-> "ready", state |-> "UpToDate"]
      [] res = "HTTPError" -> [pc |-> "ready", state |-> "Aborted"]
      [] res = "URLError" -> [pc |-> "off", state |-> "Unhandled"]

\* One iteration of the while True loop of download_files.
LoopIter(net) ==
    /\ pc = "loop"
    /\ pre' = visible
    /\ LET idx == ToInt(file_nr)
           res == UrlOpen(idx, net)
       IN  CASE res = "Found" ->
                  LET hashes == ParseFile(shards[idx + 1], file_nr)
                  IN  /\ InsertHashes(hashes)
                      /\ log' = Append(log, Entry(idx, res,
                                   IF ExecuteMany(visible, hashes).ok THEN "ok" ELSE "error"))
                      /\ file_nr' = Format05(ToInt(file_nr) + 1)
                      /\ UNCHANGED <<pc, state>>
             [] res \in {"NotFound", "HTTPError"} ->
                  /\ log' = Append(log, Entry(idx, res, "none"))
                  /\ pc' = LoopExit(res).pc
                  /\ state' = LoopExit(res).state
                  /\ UNCHANGED <<durable, visible, file_nr>>
             [] res = "URLError" ->
                  \* the open transaction of the ending process is rolled back
                  /\ log' = Append(log, Entry(idx, res, "none"))
                  /\ pc' = LoopExit(res).pc
                  /\ state' = LoopExit(res).state
                  /\ visible' = durable
                  /\ UNCHANGED <<durable, file_nr>>
    /\ UNCHANGED <<shards, runs, atStart, prev, removed>>

\* Hashes a maintenance caller may pass to remove_hash.
RemoveInputs == {<<"a">>}

\* remove_hash: the DELETE is executed and not committed.
RemoveHash(hash_str) ==
    /\ pc = "ready"
    /\ visible' = DeleteHash(visible, hash_str)
    /\ removed' = TRUE
    /\ UNCHANGED <<shards, durable, pc, file_nr, state, log, runs, atStart, pre, prev>>

\* close_connection (or the end of the process): the connection goes away
\* and with it the rows of its open transaction.
CloseConnection ==
    /\ pc = "ready"
    /\ pc' = "off"
    /\ visible' = durable
    /\ UNCHANGED <<shards, durable, file_nr, state, log, runs, atStart, pre, prev, removed>>

Next ==
    \/ Construct
    \/ UpdateDb
    \/ \E net \in NetOutcomes : Probe(net)
    \/ \E net \in NetOutcomes : LoopIter(net)
    \/ \E h \in RemoveInputs : RemoveHash(h)
    \/ CloseConnection

Spec == Init /\ [][Next]_vars

\* ------------------------------------------------------ claim vocabulary
\* The text of a raw line without its line terminator.
ContentOf(line) ==
    IF Len(line) > 0 /\ line[Len(line)] = LF THEN SubSeq(line, 1, Len(line) - 1) ELSE line

IsComment(line) == Len(line) > 0 /\ line[1] = "#"

\* Positions of the valid hash lines of a file: not a comment, not empty.
ValidLines(file) ==
    {i \in 1..Len(file) : ~IsComment(file[i]) /\ ContentOf(file[i]) # <<>>}

ValidHashes(file) == {ContentOf(file[i]) : i \in ValidLines(file)}

AllValidHashes == UNION {ValidHashes(shards[i]) : i \in 1..Len(shards)}

RECURSIVE SumValidLines(_)
SumValidLines(n) ==
    IF n = 0 THEN 0 ELSE Cardinality(ValidLines(shards[n])) + SumValidLines(n - 1)

\* No hash occurs twice in the catalog, in one shard or in two.
PairwiseDistinct == Cardinality(AllValidHashes) = SumValidLines(Len(shards))

\* The current run ended as UpToDate and nothing touched the store since.
EndedUpToDate == pc = "ready" /\ state = "UpToDate" /\ ~removed

\* The latest step was a loop iteration whose fetch was Found, so that
\* insert_hashes has just returned.
InsertReturned == pc = "loop" /\ Len(log) >= 2 /\ Last(log).res = "Found"

\* The batch of that insert_hashes call.
LastBatch == ParseFile(shards[Last(log).idx + 1], Format05(Last(log).idx))

RowsOf(batch) == {batch[i] : i \in 1..Len(batch)}

\* C1: a failure-free run started on an empty store, over a catalog of
\* shards 0..N (N >= 0), ends with the store's hashes equal to the union of
\* the valid hash lines of all shards.
C1_Completeness ==
    (EndedUpToDate /\ atStart = {} /\ FailureFree(log) /\ Len(shards) >= 1)
        => HashesOf(visible) = AllValidHashes

\* C2: over a catalog of at least two shards with pairwise distinct hashes,
\* a failure-free run from an empty store ends with every hash present,
\* the count equal to the number of hashes and the cursor equal to the
\* 5-digit index of the last shard.
C2_Scenario ==
    (EndedUpToDate /\ atStart = {} /\ FailureFree(log)
        /\ Len(shards) >= 2 /\ PairwiseDistinct)
        => /\ \A h \in AllValidHashes : HashExists(visible, h)
           /\ ToInt(CountHashes(visible)) = SumValidLines(Len(shards))
           /\ GetLatestFileNr(visible) = Format05(Len(shards) - 1)

\* C3: when the previous run completed (UpToDate, no fetch failed, no
\* remove since), a second run, itself free of fetch failures, issues no
\* insert and leaves the store as it found it.
C3_Idempotence ==
    (runs >= 2 /\ prev.state = "UpToDate" /\ prev.clean /\ ~prev.touched
        /\ FailureFree(log) /\ ~removed)
        => /\ \A i \in 1..Len(log) : log[i].ins = "none"
           /\ visible = atStart

\* C4: after insert_hashes returns, every hash of its batch is in the
\* store: a duplicate does not keep the other records out.
C4_DuplicatesTolerated ==
    InsertReturned
        => \A i \in 1..Len(LastBatch) : HashExists(visible, LastBatch[i].hash)

\* C5: after insert_hashes returns, the records of its batch are in the
\* store all together or not at all, through the connection and on disk.
C5_BatchAtomic ==
    InsertReturned
        => /\ (visible = pre \/ RowsOf(LastBatch) \subseteq visible)
           /\ (durable \cap RowsOf(LastBatch) = {} \/ RowsOf(LastBatch) \subseteq durable)

\* The loop's conversion of every line a shard file may hold.
LineNOfLine ==
    [l \in UNION {{body[i] : i \in 1..Len(body)} : body \in ShardBodies} |-> LineN(l)]

\* Hashes the sync loop derives from a file.
ParsedHashes(file) ==
    {LineNOfLine[file[i]] : i \in {j \in 1..Len(file) : ~StartsWithHash(LineNOfLine[file[j]])}}

UniqueKey(store) == \A r, q \in store : r.hash = q.hash => r = q

\* ParsedHashes of every file the catalog may hold.
ParsedOfBody == [body \in ShardBodies |-> ParsedHashes(body)]

FromItsShard(store) ==
    \A r \in store :
        LET i == ToInt(r.file_nr)
        IN  i < Len(shards) /\ r.hash \in ParsedOfBody[shards[i + 1]]

C7_ProbeFailureNoSync ==
    (Len(log) >= 1 /\ log[1].res = "HTTPError")
        => /\ state = "UpToDate"
           /\ Len(log) = 1
           /\ (~removed /\ pc = "ready" => visible = atStart)

\* C8: in a syncing loop entered after a successful probe, a fetch that
\* fails with a transient error ends the run as Aborted, handled, with the
\* store as the previous iteration left it.
C8_LoopAbort ==
    (Len(log) >= 2 /\ log[1].res = "Found" /\ Last(log).res \in Transient)
        => /\ state = "Aborted"
           /\ pc = "ready"
           /\ (~removed => visible = pre)

\* C9: an insert that fails with a persistence error is the last thing the
\* run does: the loop is left, the error reaches the caller and nothing of
\* the failed batch is in the store.
C9_PersistenceFatal ==
    \A i \in 1..Len(log) :
        log[i].ins = "error"
            => /\ i = Len(log)
               /\ pc # "loop"
               /\ state = "Unhandled"
               /\ (~removed => visible = pre)

\* C10: when the previous run committed shards 0..k from an empty store
\* and then stopped on a transient error, the next run probes shard k + 1.
C10_Resumable ==
    (runs >= 2 /\ prev.committed >= 0 /\ ~prev.touched /\ Len(log) >= 1)
        => log[1].idx = prev.committed + 1

\* C11: a loop fetch answered NotFound is the last fetch of its run: the
\* loop is left and the run is UpToDate.
C11_ExhaustionStops ==
    \A i \in 2..Len(log) :
        log[i].res = "NotFound"
            => i = Len(log) /\ pc # "loop" /\ state = "UpToDate"

\* A loop that ingested at least one shard was ended by a NotFound.
C11_Witness ==
    /\ Len(log) >= 3
    /\ log[Len(log) - 1].res = "Found"
    /\ Last(log).res = "NotFound"
    /\ Last(log).idx = Len(shards)

\* C12: a probe answered NotFound, or failing with a connectivity error,
\* is the only fetch of its run: it asked for cursor + 1, the run is
\* UpToDate, the loop is not entered and the store is as the run found it.
C12_ProbeNothingToDo ==
    (Len(log) >= 1 /\ log[1].res \in {"NotFound", "URLError"})
        => /\ Len(log) = 1
           /\ state = "UpToDate"
           /\ pc \in {"ready", "off"}
           /\ log[1].idx = ToInt(GetLatestFileNr(atStart)) + 1
           /\ (pc = "ready" /\ ~removed => visible = atStart)

\* On a store that holds records, a probe failed with a connectivity error
\* although the catalog has the next shard.
C12_Witness ==
    /\ pc = "ready" /\ ~removed
    /\ atStart # {}
    /\ Len(log) = 1 /\ log[1].res = "URLError"
    /\ log[1].idx < Len(shards)

\* C13: in runs free of fetch failures, every hash in the store is the text
\* of a non-empty, non-comment line of a shard; blank lines and malformed
\* lines are never stored.
C13_OnlyValidLines ==
    (prev.clean /\ FailureFree(log))
        => /\ HashesOf(visible) \subseteq AllValidHashes
           /\ HashesOf(durable) \subseteq AllValidHashes

\* C14: what get_latest_file_nr returns for a store that holds records
\* differs from what it returns for the empty store.
C14_EmptyCursorDistinct ==
    /\ visible # {} => GetLatestFileNr(visible) # GetLatestFileNr({})
    /\ durable # {} => GetLatestFileNr(durable) # GetLatestFileNr({})

\* ------------------------------------------------- get_latest_file_nr alone
\* A specification that calls get_latest_file_nr on the stores the loop of
\* download_files can build.  The loop writes file_nr = f'{n:05d}' for
\* n = 0, 1, 2, ...; the format pads to five digits and does not truncate, so
\* the file after 99999 is written as 100000.
LatestIndexes == {0, 1, 9, 10, 99999, 100000}

\* One record per index: the hash tells the records apart (PRIMARY KEY).
LatestRows == {Row(<<"h">> \o Digits(n), Format05(n)) : n \in LatestIndexes}

InitLatest ==
    /\ shards = <<>>
    /\ durable \in SUBSET LatestRows
    /\ visible = durable
    /\ pc = "ready"
    /\ file_nr = <<0, 0, 0, 0, 0>>
    /\ state = "Idle"
    /\ log = <<>>
    /\ runs = 0
    /\ atStart = {}
    /\ pre = {}
    /\ prev = [state |-> "Idle", clean |-> TRUE, committed |-> -1, touched |-> FALSE]
    /\ removed = FALSE

\* file_nr = self.get_latest_file_nr()
GetLatestFileNrCall ==
    /\ pc = "ready"
    /\ file_nr' = GetLatestFileNr(visible)
    /\ pc' = "called"
    /\ UNCHANGED <<shards, durable, visible, state, log, runs, atStart, pre, prev, removed>>

NextLatest == GetLatestFileNrCall

SpecLatest == InitLatest /\ [][NextLatest]_vars

\* The numerically greatest file_nr of a non-empty store.
MaxIndex(store) ==
    CHOOSE n \in {ToInt(r.file_nr) : r \in store} :
        \A r \in store : ToInt(r.file_nr) <= n

\* C15: get_latest_file_nr returns the numerically greatest file_nr of a
\* non-empty store, and the value of the empty store when there is no record.
C15_LatestIsMaximum ==
    pc = "called"
        => IF visible = {} THEN file_nr = GetLatestFileNr({})
           ELSE ToInt(file_nr) = MaxIndex(visible)

\* C16: when the probe finds the next file on a non-empty store with cursor
\* c, the first fetch of the loop is for index c + 1, the index the probe
\* requested.
C16_LoopStartsAfterCursor ==
    (Len(log) >= 2 /\ log[1].res = "Found" /\ atStart # {})
        => log[2].idx = ToInt(GetLatestFileNr(atStart)) + 1

\* A step of a synchronization run: every step but remove_hash and
\* close_connection, which are taken with pc = "ready" and do not start a run.
SyncStep == pc # "ready" \/ pc' = "probe"

\* C17: a step of a synchronization run removes no record the connection
\* sees, so a hash that exists keeps existing, and the cursor does not
\* decrease.
C17_MonotonicGrowth ==
    [][SyncStep =>
          /\ visible \subseteq visible'
          /\ ToInt(GetLatestFileNr(visible)) <= ToInt(GetLatestFileNr(visible'))]_vars

\* The current run has ended: no call of update_db is in progress.
RunEnded == runs >= 1 /\ pc \in {"ready", "off"}

\* C18: a run whose probe was answered and that has ended is UpToDate or
\* Aborted, and its loop requested consecutive increasing indexes and went on
\* only after a Found.
C18_RunTerminates ==
    /\ (RunEnded /\ Len(log) >= 1 /\ log[1].res \in {"Found", "NotFound"})
          => state \in {"UpToDate", "Aborted"}
    /\ \A i \in 2..(Len(log) - 1) :
          log[i].res = "Found" /\ log[i + 1].idx = log[i].idx + 1

\* The store holds every hash the loop derives from the file of index j.
Ingested(j) == ParsedOfBody[shards[j + 1]] \subseteq HashesOf(visible)

\* The loop of the current run has fetched the file of index j and gone on.
PassedInLoop(j) ==
    \E i \in 2..Len(log) : log[i].idx = j /\ log[i].res = "Found"

\* C19: absent a remove_hash, every shard at or below the cursor of the
\* store, and every shard the loop has gone past, is fully in the store.
C19_NoGapBelowCursor ==
    (pc \in {"loop", "ready"} /\ ~removed /\ ~prev.touched)
        => \A j \in 0..(Len(shards) - 1) :
              (\/ visible # {} /\ j <= ToInt(GetLatestFileNr(visible))
               \/ PassedInLoop(j))
                  => Ingested(j)

\* C20: while a HashAPI object is in use, the rows its connection sees are
\* the committed rows: nothing is left pending after insert_hashes or
\* remove_hash.
C20_VisibleIsDurable ==
    pc \in {"loop", "ready"} => visible = durable

====
